---- MODULE Spec2Model ----
(***************************************************************************)
(* A model of the comment-tree core of hn_flat.py: the Comment data model, *)
(* build_comment_tree, the metrics, render_markdown, get_all_leaves and    *)
(* condense_comments.                                                      *)
(*                                                                         *)
(* Comment objects live in a heap indexed by address, so that object       *)
(* identity ("is"), value equality ("==", "in", list.remove) and the deep  *)
(* copy taken by condense_comments are all expressible.  A Python str is   *)
(* a sequence of one-character strings.  A Python float that is a ratio of *)
(* small integers is kept as that ratio: weight() as its numerator over    *)
(* the fixed denominator 10, target_rate as <<numerator, denominator>>.    *)
(***************************************************************************)
EXTENDS Integers, Sequences, FiniteSets, TLC

VARIABLES heap, flat_comments, root_comments, stack, idx, pc,
          comments, original_length, iteration, target_rate, step_size,
          leaves, removed_count,
          rows, calls, content, comment_trees

vars == <<heap, flat_comments, root_comments, stack, idx, pc,
          comments, original_length, iteration, target_rate, step_size,
          leaves, removed_count, rows, calls, content, comment_trees>>

(***************************************************************************)
(* Bounds of the model.                                                    *)
(***************************************************************************)
\* the largest number of comment records in one input
MaxNodes == 3
\* cap on the iteration counter of the condensation loop
MaxIter == 5

(***************************************************************************)
(* Program constants.                                                      *)
(***************************************************************************)
\* "HN uses 40px per indent level" (Comment.depth)
IndentUnit == 40
\* the default of condense_comments' step_size parameter
DefaultStepSize == 4

\* the value None of a leaf's parent at root level
None == 0

NL == "\n"

\* indent values of the input records
Indents == {0, IndentUnit, 2 * IndentUnit}

\* comment texts of the input records: a one-line text and a three-line
\* text whose middle line is blank
Texts == { <<"a">>, <<"b", NL, " ", NL, "c">> }

\* target_rate arguments, as <<numerator, denominator>>:
\* -0.5, 0.0, 0.5, 1.0 and 1.5
Rates == { <<-1, 2>>, <<0, 1>>, <<1, 2>>, <<1, 1>>, <<3, 2>> }

\* step_size arguments
StepSizes == {0, 1, 2, DefaultStepSize}

Min(a, b) == IF a <= b THEN a ELSE b

(***************************************************************************)
(* Strings.                                                                *)
(***************************************************************************)
Digits == <<"0", "1", "2", "3", "4", "5", "6", "7", "8", "9">>

\* str(n) for n >= 0
RECURSIVE IntToStr(_)
IntToStr(n) ==
    IF n < 10 THEN <<Digits[n + 1]>>
    ELSE IntToStr(n \div 10) \o <<Digits[(n % 10) + 1]>>

\* the string s repeated n times
RECURSIVE Repeat(_, _)
Repeat(s, n) == IF n <= 0 THEN <<>> ELSE s \o Repeat(s, n - 1)

\* sep.join(parts)
RECURSIVE Join(_, _)
Join(parts, sep) ==
    IF parts = <<>> THEN <<>>
    ELSE IF Len(parts) = 1 THEN parts[1]
    ELSE parts[1] \o sep \o Join(Tail(parts), sep)

\* text.split("\n")
RECURSIVE SplitLines(_)
SplitLines(text) ==
    IF \A k \in 1..Len(text) : text[k] # NL THEN <<text>>
    ELSE LET k == CHOOSE j \in 1..Len(text) :
                      text[j] = NL /\ \A m \in 1..(j - 1) : text[m] # NL
         IN <<SubSeq(text, 1, k - 1)>> \o SplitLines(SubSeq(text, k + 1, Len(text)))

\* bool(line.strip())
StripNonEmpty(line) == \E k \in 1..Len(line) : line[k] \notin {" ", "\t", NL, "\r"}

\* the number of spaces a line starts with
RECURSIVE LeadingSpaces(_)
LeadingSpaces(line) ==
    IF line # <<>> /\ Head(line) = " " THEN 1 + LeadingSpaces(Tail(line)) ELSE 0

\* the line without its first n characters
DropChars(line, n) == SubSeq(line, n + 1, Len(line))

\* the line starts with the characters of prefix
StartsWith(line, prefix) ==
    Len(line) >= Len(prefix) /\ SubSeq(line, 1, Len(prefix)) = prefix

(***************************************************************************)
(* The Comment data model and the metrics.                                 *)
(***************************************************************************)
\* Comment(id, author, text, indent): children defaults to a fresh []
Comment(id, author, text, indent) ==
    [id |-> id, author |-> author, text |-> text, indent |-> indent, children |-> <<>>]

\* mutant of descendant_count: len(self.children), the direct children only
children_count(h, a) == Len(h[a].children)

RECURSIVE descendant_count(_, _)
RECURSIVE SumDescendants(_, _)
SumDescendants(h, list) ==
    IF list = <<>> THEN 0
    ELSE descendant_count(h, Head(list)) + SumDescendants(h, Tail(list))

descendant_count(h, a) == Len(h[a].children) + SumDescendants(h, h[a].children)

\* weight() times 10: weight() itself is this number / 10
weight10(h, a) == (descendant_count(h, a) + 1) * Len(h[a].text)

depth(h, a) == h[a].indent \div IndentUnit

\* mutant of is_leaf: len(self.children) <= 1
is_leaf_or_single(h, a) == Len(h[a].children) <= 1

is_leaf(h, a) == Len(h[a].children) = 0

\* a == b of two Comment objects: the dataclass compares the fields, the
\* child lists element by element
RECURSIVE CommentEq(_, _, _)
RECURSIVE ListEq(_, _, _)
ListEq(h, l1, l2) ==
    /\ Len(l1) = Len(l2)
    /\ \A k \in 1..Len(l1) : l1[k] = l2[k] \/ CommentEq(h, l1[k], l2[k])

CommentEq(h, a, b) ==
    /\ h[a].id = h[b].id
    /\ h[a].author = h[b].author
    /\ h[a].text = h[b].text
    /\ h[a].indent = h[b].indent
    /\ ListEq(h, h[a].children, h[b].children)

\* the addresses of the nodes of a forest, in depth-first pre-order
RECURSIVE Preorder(_, _)
Preorder(h, list) ==
    IF list = <<>> THEN <<>>
    ELSE <<Head(list)>> \o Preorder(h, h[Head(list)].children) \o Preorder(h, Tail(list))

NodeCount(h, list) == Len(Preorder(h, list))

\* the addresses of the nodes of the forest under the list, as a set
NodesOfList(h, list) == {Preorder(h, list)[k] : k \in 1..Len(Preorder(h, list))}

(***************************************************************************)
(* parse_comments: the indent of a comment row.  A row is modelled by what *)
(* the indent computation reads: whether the row has an indent image,      *)
(* whether the image has a width attribute, and the attribute's string.    *)
(***************************************************************************)
IsDigit(ch) == \E d \in 0..9 : Digits[d + 1] = ch

DigitValue(ch) == CHOOSE d \in 0..9 : Digits[d + 1] = ch

RECURSIVE DigitsToInt(_)
DigitsToInt(s) ==
    IF s = <<>> THEN 0
    ELSE 10 * DigitsToInt(SubSeq(s, 1, Len(s) - 1)) + DigitValue(s[Len(s)])

\* int(s) of a str of sign and digit characters or letters: ok is FALSE
\* where int raises ValueError
int(s) ==
    LET body == IF s # <<>> /\ s[1] \in {"-", "+"} THEN Tail(s) ELSE s
    IN IF body = <<>> \/ \E k \in 1..Len(body) : ~IsDigit(body[k])
       THEN [ok |-> FALSE, value |-> 0]
       ELSE [ok |-> TRUE,
             value |-> IF s[1] = "-" THEN 0 - DigitsToInt(body) ELSE DigitsToInt(body)]

\* indent = int(indent_td.get("width", 0)) if indent_td else 0
RowIndent(row) ==
    IF row.img
    THEN IF row.has_width THEN int(row.width) ELSE [ok |-> TRUE, value |-> 0]
    ELSE [ok |-> TRUE, value |-> 0]

\* the row whose indent image has the width attribute str(indent)
RowOf(indent) == [img |-> TRUE, has_width |-> TRUE, width |-> IntToStr(indent)]

\* rows of a page: no indent image, an image without width, and images of
\* width "40", "-40" and "x"
Widths ==
    { [img |-> FALSE, has_width |-> FALSE, width |-> <<>>],
      [img |-> TRUE, has_width |-> FALSE, width |-> <<>>],
      [img |-> TRUE, has_width |-> TRUE, width |-> <<"4", "0">>],
      [img |-> TRUE, has_width |-> TRUE, width |-> <<"-", "4", "0">>],
      [img |-> TRUE, has_width |-> TRUE, width |-> <<"x">>] }

(***************************************************************************)
(* build_comment_tree.                                                     *)
(***************************************************************************)
\* mutant of ShouldPop: the test stack[-1].indent > comment.indent
ShouldPopStrict(top_indent, indent) == top_indent > indent

\* the test of the pop loop: stack[-1].indent >= comment.indent
ShouldPop(top_indent, indent) == top_indent >= indent

\* mutant of PopStack: "if" in place of "while", at most one pop
PopStackOnce(h, stk, c) ==
    IF stk # <<>> /\ ShouldPop(h[stk[Len(stk)]].indent, h[c].indent)
    THEN SubSeq(stk, 1, Len(stk) - 1)
    ELSE stk

\* while stack and stack[-1].indent >= comment.indent: stack.pop()
RECURSIVE PopStack(_, _, _)
PopStack(h, stk, c) ==
    IF stk # <<>> /\ ShouldPop(h[stk[Len(stk)]].indent, h[c].indent)
    THEN PopStack(h, SubSeq(stk, 1, Len(stk) - 1), c)
    ELSE stk

\* one pass of the loop over flat_comments, for the record at address c;
\* st holds the heap, the list root_comments and the stack
\* mutant of BuildOne: stack[-1].children.insert(0, comment)
BuildOnePrepend(st, c) ==
    LET stk == PopStack(st.heap, st.stack, c)
    IN IF stk # <<>>
       THEN [heap  |-> [st.heap EXCEPT ![stk[Len(stk)]].children = <<c>> \o @],
             roots |-> st.roots,
             stack |-> Append(stk, c)]
       ELSE [heap  |-> st.heap,
             roots |-> Append(st.roots, c),
             stack |-> Append(stk, c)]

BuildOne(st, c) ==
    LET stk == PopStack(st.heap, st.stack, c)
    IN IF stk # <<>>
       THEN [heap  |-> [st.heap EXCEPT ![stk[Len(stk)]].children = Append(@, c)],
             roots |-> st.roots,
             stack |-> Append(stk, c)]
       ELSE [heap  |-> st.heap,
             roots |-> Append(st.roots, c),
             stack |-> Append(stk, c)]

\* build_comment_tree as a whole, on the records at the addresses of flat
RECURSIVE BuildFrom(_, _)
BuildFrom(st, flat) ==
    IF flat = <<>> THEN st ELSE BuildFrom(BuildOne(st, Head(flat)), Tail(flat))

build_comment_tree(h, flat) ==
    BuildFrom([heap |-> h, roots |-> <<>>, stack |-> <<>>], flat)

(***************************************************************************)
(* render_markdown.                                                        *)
(***************************************************************************)
\* the lines of format_comment_text after the first one
RECURSIVE FormatContinuation(_, _)
FormatContinuation(lines, indent_str) ==
    IF lines = <<>> THEN <<>>
    ELSE <<IF StripNonEmpty(Head(lines))
           THEN indent_str \o <<" ", " ">> \o Head(lines)
           ELSE <<>>>> \o FormatContinuation(Tail(lines), indent_str)

format_comment_text(text, indent_str) ==
    LET lines == SplitLines(text)
    IN Join(<<Head(lines)>> \o FormatContinuation(Tail(lines), indent_str), <<NL>>)

\* f" [+{desc_count}]" if desc_count > 0 else ""
CountStr(desc_count) ==
    IF desc_count > 0 THEN <<" ", "[", "+">> \o IntToStr(desc_count) \o <<"]">> ELSE <<>>

\* mutant of RenderLines: the children are rendered at depth, not depth + 1
RECURSIVE RenderLinesFlat(_, _, _)
RenderLinesFlat(h, list, d) ==
    IF list = <<>> THEN <<>>
    ELSE LET c == Head(list)
             indent_str == Repeat(<<" ", " ">>, d)
             line == indent_str \o <<"-", " ", "@">> \o h[c].author
                     \o CountStr(descendant_count(h, c)) \o <<":", " ">>
                     \o format_comment_text(h[c].text, indent_str)
         IN <<line>>
            \o (IF h[c].children # <<>>
                THEN <<Join(RenderLinesFlat(h, h[c].children, d), <<NL>>)>>
                ELSE <<>>)
            \o RenderLinesFlat(h, Tail(list), d)

\* the list "lines" that render_markdown joins
RECURSIVE RenderLines(_, _, _)
RenderLines(h, list, d) ==
    IF list = <<>> THEN <<>>
    ELSE LET c == Head(list)
             indent_str == Repeat(<<" ", " ">>, d)
             line == indent_str \o <<"-", " ", "@">> \o h[c].author
                     \o CountStr(descendant_count(h, c)) \o <<":", " ">>
                     \o format_comment_text(h[c].text, indent_str)
         IN <<line>>
            \o (IF h[c].children # <<>>
                THEN <<Join(RenderLines(h, h[c].children, d + 1), <<NL>>)>>
                ELSE <<>>)
            \o RenderLines(h, Tail(list), d)

render_markdown(h, list, d) == Join(RenderLines(h, list, d), <<NL>>)

(***************************************************************************)
(* get_all_leaves and the sort of the candidate leaves.                    *)
(***************************************************************************)
\* a tuple (comment, parent, comments) of get_all_leaves: the third part,
\* the list that holds the leaf, is the root list when parent is None and
\* parent.children otherwise
RECURSIVE get_all_leaves_top(_, _, _)
get_all_leaves_top(h, list, parent) ==
    IF list = <<>> THEN <<>>
    ELSE (IF is_leaf(h, Head(list))
          THEN <<[leaf |-> Head(list), parent |-> parent]>>
          ELSE <<>>)
         \o get_all_leaves_top(h, Tail(list), parent)

RECURSIVE get_all_leaves_same_parent(_, _, _)
get_all_leaves_same_parent(h, list, parent) ==
    IF list = <<>> THEN <<>>
    ELSE (IF is_leaf(h, Head(list))
          THEN <<[leaf |-> Head(list), parent |-> parent]>>
          ELSE get_all_leaves_same_parent(h, h[Head(list)].children, parent))
         \o get_all_leaves_same_parent(h, Tail(list), parent)

RECURSIVE get_all_leaves(_, _, _)
get_all_leaves(h, list, parent) ==
    IF list = <<>> THEN <<>>
    ELSE (IF is_leaf(h, Head(list))
          THEN <<[leaf |-> Head(list), parent |-> parent]>>
          ELSE get_all_leaves(h, h[Head(list)].children, Head(list)))
         \o get_all_leaves(h, Tail(list), parent)

\* find_depth(comments, target, d): the search is by identity ("c is target")
RECURSIVE find_depth(_, _, _, _)
find_depth(h, list, target, d) ==
    IF list = <<>> THEN -1
    ELSE LET c == Head(list)
             below == IF h[c].children # <<>>
                      THEN find_depth(h, h[c].children, target, d + 1)
                      ELSE -1
         IN IF c = target THEN d
            ELSE IF below >= 0 THEN below
            ELSE find_depth(h, Tail(list), target, d)

\* leaf_sort_key: (weight, -depth); the depth is 0 for a leaf whose parent is
\* None and otherwise find_depth(root_comments, leaf), a search of the list
\* that was passed to condense_comments
leaf_sort_key(h, roots, info) ==
    LET d == IF info.parent # None THEN find_depth(h, roots, info.leaf, 0) ELSE 0
    IN <<weight10(h, info.leaf), -d>>

\* mutant of KeyLE: the tuples compared by their second component first
KeyLEDepthFirst(k1, k2) == k1[2] < k2[2] \/ (k1[2] = k2[2] /\ k1[1] <= k2[1])

\* k1 <= k2 of two key tuples
KeyLE(k1, k2) == k1[1] < k2[1] \/ (k1[1] = k2[1] /\ k1[2] <= k2[2])

\* list.sort(key=...): stable, ascending
RECURSIVE InsertSorted(_, _, _, _)
InsertSorted(h, roots, sorted, info) ==
    IF sorted = <<>> THEN <<info>>
    ELSE IF KeyLE(leaf_sort_key(h, roots, Head(sorted)), leaf_sort_key(h, roots, info))
    THEN <<Head(sorted)>> \o InsertSorted(h, roots, Tail(sorted), info)
    ELSE <<info>> \o sorted

RECURSIVE SortLeaves(_, _, _)
SortLeaves(h, roots, ls) ==
    IF ls = <<>> THEN <<>>
    ELSE InsertSorted(h, roots, SortLeaves(h, roots, SubSeq(ls, 1, Len(ls) - 1)), ls[Len(ls)])

(***************************************************************************)
(* condense_comments.                                                      *)
(***************************************************************************)
\* the address of the copy of the object at address a
CopyAddr(a) == a + MaxNodes

CopyList(list) == [k \in 1..Len(list) |-> CopyAddr(list[k])]

\* mutant of DeepCopy: copy.copy(root_comments), a new list of the same objects
ShallowCopy(h, roots) == [heap |-> h, list |-> roots]

\* copy.deepcopy(root_comments): a new list of new objects
DeepCopy(h, roots) ==
    LET old == {a \in DOMAIN h : \E k \in 1..Len(Preorder(h, roots)) : Preorder(h, roots)[k] = a}
        new == {CopyAddr(a) : a \in old}
    IN [heap |-> [b \in DOMAIN h \cup new |->
                    IF b \in new
                    THEN LET a == CHOOSE x \in old : CopyAddr(x) = b
                         IN [h[a] EXCEPT !.children = CopyList(@)]
                    ELSE h[b]],
        list |-> CopyList(roots)]

\* mutant of RateReached: the test current_rate < target_rate
RateReachedStrict(current_length, orig_length, rate) ==
    IF orig_length > 0
    THEN current_length * rate[2] < rate[1] * orig_length
    ELSE rate[2] < rate[1]

\* mutant of RateReached: current_length // original_length, the floor division
RateReachedFloorDiv(current_length, orig_length, rate) ==
    IF orig_length > 0
    THEN (current_length \div orig_length) * rate[2] <= rate[1]
    ELSE rate[2] <= rate[1]

\* mutant of RateReached: current_rate is 0.0 when original_length is 0
RateReachedZeroRate(current_length, orig_length, rate) ==
    IF orig_length > 0
    THEN current_length * rate[2] <= rate[1] * orig_length
    ELSE 0 <= rate[1]

\* mutant of RateReached: the test current_rate <= abs(target_rate)
RateReachedAbs(current_length, orig_length, rate) ==
    LET r == IF rate[1] < 0 THEN 0 - rate[1] ELSE rate[1]
    IN IF orig_length > 0
       THEN current_length * rate[2] <= r * orig_length
       ELSE rate[2] <= r

\* current_rate <= target_rate, with
\* current_rate = current_length / original_length if original_length > 0 else 1.0
RateReached(current_length, orig_length, rate) ==
    IF orig_length > 0
    THEN current_length * rate[2] <= rate[1] * orig_length
    ELSE rate[2] <= rate[1]

\* mutant of BatchRange: range(min(step_size, len(leaves)) - 1)
BatchRangeShort(step, n) == IF Min(step, n) - 1 > 0 THEN Min(step, n) - 1 ELSE 0

\* range(min(step_size, len(leaves)))
BatchRange(step, n) == IF Min(step, n) > 0 THEN Min(step, n) ELSE 0

\* mutant of ListContains: leaf_to_remove in root_comments by identity,
\* a test against the list the call was passed
ListContainsInInput(h, list, a) ==
    \E k \in 1..Len(root_comments) : root_comments[k] = a

\* leaf_to_remove in siblings: identity or equality with some element
ListContains(h, list, a) ==
    \E k \in 1..Len(list) : list[k] = a \/ CommentEq(h, list[k], a)

\* mutant of ListRemove: the splice keeps the element (siblings[:k+1] + siblings[k:])
ListRemoveKeep(h, list, a) ==
    LET k == CHOOSE j \in 1..Len(list) :
                 /\ list[j] = a \/ CommentEq(h, list[j], a)
                 /\ \A m \in 1..(j - 1) : ~(list[m] = a \/ CommentEq(h, list[m], a))
    IN SubSeq(list, 1, k) \o SubSeq(list, k, Len(list))

\* mutant of ListRemove: the rest of the list comes back in reverse order
ListRemoveReversed(h, list, a) ==
    LET k == CHOOSE j \in 1..Len(list) :
                 /\ list[j] = a \/ CommentEq(h, list[j], a)
                 /\ \A i \in 1..(j - 1) : ~(list[i] = a \/ CommentEq(h, list[i], a))
        rest == SubSeq(list, 1, k - 1) \o SubSeq(list, k + 1, Len(list))
    IN [i \in 1..Len(rest) |-> rest[Len(rest) + 1 - i]]

\* siblings.remove(leaf_to_remove): the first element that is or equals it
ListRemove(h, list, a) ==
    LET k == CHOOSE j \in 1..Len(list) :
                 /\ list[j] = a \/ CommentEq(h, list[j], a)
                 /\ \A m \in 1..(j - 1) : ~(list[m] = a \/ CommentEq(h, list[m], a))
    IN SubSeq(list, 1, k - 1) \o SubSeq(list, k + 1, Len(list))

\* one pass of the removal loop, for the tuple info; st holds the heap, the
\* root list comments and removed_count
RemoveOne(st, info) ==
    LET siblings == IF info.parent = None THEN st.comments
                    ELSE st.heap[info.parent].children
    IN IF ListContains(st.heap, siblings, info.leaf)
       THEN [heap     |-> IF info.parent = None THEN st.heap
                          ELSE [st.heap EXCEPT ![info.parent].children =
                                    ListRemove(st.heap, siblings, info.leaf)],
             comments |-> IF info.parent = None
                          THEN ListRemove(st.heap, siblings, info.leaf)
                          ELSE st.comments,
             removed  |-> st.removed + 1]
       ELSE st

\* for i in range(min(step_size, len(leaves))): the passes i = k .. n-1
RECURSIVE RemoveBatch(_, _, _, _)
RemoveBatch(st, sorted, k, n) ==
    IF k > n THEN st
    ELSE RemoveBatch(RemoveOne(st, sorted[k]), sorted, k + 1, n)

(***************************************************************************)
(* The state machine: main() builds the forest from the parsed records,    *)
(* one pass of build_comment_tree's loop per step, and hands it to         *)
(* condense_comments, whose loop runs one iteration per step.              *)
(***************************************************************************)
\* the Comment objects parse_comments creates, at the addresses 1..n
Records(n, texts, indents) ==
    [a \in 1..n |-> Comment(IntToStr(a), <<"u">> \o IntToStr(a), texts[a], indents[a])]

\* the variables of a call of condense_comments that has not started
CondenseIdle ==
    /\ comments = <<>>
    /\ original_length = 0
    /\ iteration = 0
    /\ target_rate = <<1, 1>>
    /\ step_size = DefaultStepSize
    /\ leaves = <<>>
    /\ removed_count = 0

Init ==
    /\ \E n \in 0..MaxNodes :
         \E texts \in [1..n -> Texts], indents \in [1..n -> Indents] :
            /\ heap = Records(n, texts, indents)
            /\ flat_comments = [k \in 1..n |-> k]
            /\ rows = [k \in 1..n |-> RowOf(indents[k])]
    /\ root_comments = <<>>
    /\ stack = <<>>
    /\ idx = 1
    /\ pc = "build"
    /\ CondenseIdle
    /\ calls = <<>>
    /\ content = <<>>
    /\ comment_trees = <<>>

\* for comment in flat_comments: one pass
BuildStep ==
    /\ pc = "build"
    /\ idx <= Len(flat_comments)
    /\ LET st == BuildOne([heap |-> heap, roots |-> root_comments, stack |-> stack],
                          flat_comments[idx])
       IN /\ heap' = st.heap
          /\ root_comments' = st.roots
          /\ stack' = st.stack
    /\ idx' = idx + 1
    /\ UNCHANGED <<flat_comments, pc, comments, original_length, iteration,
                   target_rate, step_size, leaves, removed_count,
                   rows, calls, content, comment_trees>>

\* return root_comments (also the early return for an empty input)
BuildReturn ==
    /\ pc = "build"
    /\ idx > Len(flat_comments)
    /\ pc' = "main"
    /\ stack' = <<>>
    /\ UNCHANGED <<heap, flat_comments, root_comments, idx, comments, original_length,
                   iteration, target_rate, step_size, leaves, removed_count,
                   rows, calls, content, comment_trees>>

\* the call condense_comments(comment_tree, rate, verbose, step) up to the loop
CondenseEnter ==
    /\ pc = "main"
    /\ \E rate \in Rates, step \in StepSizes :
          /\ target_rate' = rate
          /\ step_size' = step
    /\ LET cp == DeepCopy(heap, root_comments)
       IN /\ heap' = cp.heap
          /\ comments' = cp.list
          /\ original_length' = Len(render_markdown(cp.heap, cp.list, 0))
    /\ iteration' = 0
    /\ pc' = "loop"
    /\ UNCHANGED <<flat_comments, root_comments, stack, idx, leaves, removed_count,
                   rows, calls, content, comment_trees>>

CurrentLength == Len(render_markdown(heap, comments, 0))

\* if current_rate <= target_rate: break; then return comments
LoopBreakTarget ==
    /\ pc = "loop"
    /\ RateReached(CurrentLength, original_length, target_rate)
    /\ pc' = "done"
    /\ UNCHANGED <<heap, flat_comments, root_comments, stack, idx, comments,
                   original_length, iteration, target_rate, step_size, leaves,
                   removed_count,
                   rows, calls, content, comment_trees>>

\* if not leaves: break; then return comments
LoopBreakNoLeaves ==
    /\ pc = "loop"
    /\ ~RateReached(CurrentLength, original_length, target_rate)
    /\ get_all_leaves(heap, comments, None) = <<>>
    /\ pc' = "done"
    /\ UNCHANGED <<heap, flat_comments, root_comments, stack, idx, comments,
                   original_length, iteration, target_rate, step_size, leaves,
                   removed_count,
                   rows, calls, content, comment_trees>>

\* one iteration that sorts the leaves and removes a batch
LoopPrune ==
    /\ pc = "loop"
    /\ iteration < MaxIter
    /\ ~RateReached(CurrentLength, original_length, target_rate)
    /\ get_all_leaves(heap, comments, None) # <<>>
    /\ LET sorted == SortLeaves(heap, root_comments, get_all_leaves(heap, comments, None))
           st == RemoveBatch([heap |-> heap, comments |-> comments, removed |-> 0],
                             sorted, 1, BatchRange(step_size, Len(sorted)))
       IN /\ leaves' = sorted
          /\ heap' = st.heap
          /\ comments' = st.comments
          /\ removed_count' = st.removed
    /\ iteration' = iteration + 1
    /\ UNCHANGED <<flat_comments, root_comments, stack, idx, pc, original_length,
                   target_rate, step_size,
                   rows, calls, content, comment_trees>>

Next ==
    \/ BuildStep
    \/ BuildReturn
    \/ CondenseEnter
    \/ LoopBreakTarget
    \/ LoopBreakNoLeaves
    \/ LoopPrune

Spec == Init /\ [][Next]_vars

(***************************************************************************)
(* condense_comments called on a forest its caller has put together from   *)
(* Comment objects directly, with any indent on any node.                  *)
(***************************************************************************)
RECURSIVE AscendingSeq(_)
AscendingSeq(S) ==
    IF S = {} THEN <<>>
    ELSE LET m == CHOOSE x \in S : \A y \in S : x <= y
         IN <<m>> \o AscendingSeq(S \ {m})

\* p is node i or one of its ancestors
RECURSIVE IsAncestorOrSelf(_, _, _)
IsAncestorOrSelf(parents, p, i) ==
    i # 0 /\ (p = i \/ IsAncestorOrSelf(parents, p, parents[i]))

\* the nodes 1..n are numbered in pre-order
PreorderNumbered(n, parents) ==
    /\ \A i \in 1..n : parents[i] < i
    /\ \A i \in 1..n : parents[i] = 0 \/ IsAncestorOrSelf(parents, parents[i], i - 1)

HandInit ==
    /\ \E n \in 0..MaxNodes :
         \E texts \in [1..n -> Texts], indents \in [1..n -> Indents],
            parents \in [1..n -> 0..(n - 1)] :
            /\ PreorderNumbered(n, parents)
            /\ heap = [a \in 1..n |->
                         [Records(n, texts, indents)[a] EXCEPT
                            !.children = AscendingSeq({i \in 1..n : parents[i] = a})]]
            /\ root_comments = AscendingSeq({i \in 1..n : parents[i] = 0})
    /\ flat_comments = <<>>
    /\ stack = <<>>
    /\ idx = 1
    /\ pc = "main"
    /\ CondenseIdle
    /\ rows = <<>>
    /\ calls = <<>>
    /\ content = <<>>
    /\ comment_trees = <<>>

HandNext ==
    \/ CondenseEnter
    \/ LoopBreakTarget
    \/ LoopBreakNoLeaves
    \/ LoopPrune

SpecHand == HandInit /\ [][HandNext]_vars

(***************************************************************************)
(* main() from parse_comments on: the loop over the comment rows, one row  *)
(* per step, then build_comment_tree.  Every row has a comment div, an     *)
(* author and a non-empty text, so none is skipped.                        *)
(***************************************************************************)
ParseInit ==
    /\ \E n \in 0..MaxNodes : rows \in [1..n -> Widths]
    /\ heap = <<>>
    /\ flat_comments = <<>>
    /\ root_comments = <<>>
    /\ stack = <<>>
    /\ idx = 1
    /\ pc = "parse"
    /\ CondenseIdle
    /\ calls = <<>>
    /\ content = <<>>
    /\ comment_trees = <<>>

\* for row in comment_rows: one pass; a ValueError of int() leaves
\* parse_comments
ParseRow ==
    /\ pc = "parse"
    /\ idx <= Len(rows)
    /\ LET indent == RowIndent(rows[idx])
       IN IF indent.ok
          THEN /\ heap' = Append(heap, Comment(IntToStr(idx), <<"u">> \o IntToStr(idx),
                                               <<"a">>, indent.value))
               /\ flat_comments' = Append(flat_comments, Len(heap) + 1)
               /\ idx' = idx + 1
               /\ pc' = pc
          ELSE /\ pc' = "error"
               /\ UNCHANGED <<heap, flat_comments, idx>>
    /\ UNCHANGED <<root_comments, stack, comments, original_length, iteration,
                   target_rate, step_size, leaves, removed_count, rows, calls, content, comment_trees>>

\* return comments, and the call build_comment_tree(flat_comments)
ParseReturn ==
    /\ pc = "parse"
    /\ idx > Len(rows)
    /\ pc' = "build"
    /\ idx' = 1
    /\ UNCHANGED <<heap, flat_comments, root_comments, stack, comments, original_length,
                   iteration, target_rate, step_size, leaves, removed_count,
                   rows, calls, content, comment_trees>>

ParseNext ==
    \/ ParseRow
    \/ ParseReturn
    \/ BuildStep
    \/ BuildReturn

SpecParse == ParseInit /\ [][ParseNext]_vars

(***************************************************************************)
(* Several calls of condense_comments in progress at once, their loop      *)
(* iterations interleaved in any order.  All calls work in the one heap of *)
(* the process; the locals of call i are the fields of calls[i].           *)
(***************************************************************************)
\* the calls in progress
CallIds == {1, 2}

\* the arguments of the concurrent calls: target_rate 0.0 and 0.5,
\* step_size 1 and 2
ConcRates == { <<0, 1>>, <<1, 2>> }

ConcSteps == {1, 2}

\* the address of the copy that call i makes of the object at address a
CopyAddrOf(i, a) == a + i * MaxNodes

\* mutant of DeepCopyOf: copy.copy(root_comments), a new list of the same objects
ShallowCopyOf(i, h, roots) == [heap |-> h, list |-> roots]

\* copy.deepcopy(root_comments) in call i: a new list of new objects
DeepCopyOf(i, h, roots) ==
    LET old == NodesOfList(h, roots)
        new == {CopyAddrOf(i, a) : a \in old}
    IN [heap |-> [b \in DOMAIN h \cup new |->
                    IF b \in new
                    THEN LET a == CHOOSE x \in old : CopyAddrOf(i, x) = b
                         IN [h[a] EXCEPT !.children =
                                [k \in 1..Len(@) |-> CopyAddrOf(i, @[k])]]
                    ELSE h[b]],
        list |-> [k \in 1..Len(roots) |-> CopyAddrOf(i, roots[k])]]

\* the locals of a call that has not started
IdleCall(roots, rate, step) ==
    [pc |-> "idle", root_comments |-> roots, target_rate |-> rate, step_size |-> step,
     comments |-> <<>>, original_length |-> 0, iteration |-> 0, leaves |-> <<>>,
     removed_count |-> 0]

\* the forests built by the main thread and the calls about to start: both
\* calls on the whole forest, or one on its first root and the other on
\* the remaining roots
ConcInit ==
    /\ \E n \in 0..MaxNodes :
         \E indents \in [1..n -> Indents] :
            LET built == build_comment_tree(Records(n, [a \in 1..n |-> <<"a">>], indents),
                                            [k \in 1..n |-> k])
            IN /\ heap = built.heap
               /\ flat_comments = [k \in 1..n |-> k]
               /\ rows = [k \in 1..n |-> RowOf(indents[k])]
               /\ root_comments = built.roots
               /\ \E same \in BOOLEAN :
                     \E rates \in [CallIds -> ConcRates], steps \in [CallIds -> ConcSteps] :
                        calls = [i \in CallIds |->
                                   IdleCall(IF same THEN built.roots
                                            ELSE IF i = 1
                                            THEN SubSeq(built.roots, 1, Min(1, Len(built.roots)))
                                            ELSE SubSeq(built.roots, 2, Len(built.roots)),
                                            rates[i], steps[i])]
    /\ stack = <<>>
    /\ idx = Len(flat_comments) + 1
    /\ pc = "conc"
    /\ CondenseIdle
    /\ content = <<>>
    /\ comment_trees = <<>>

ConcFrame ==
    UNCHANGED <<flat_comments, root_comments, stack, idx, pc, comments, original_length,
                iteration, target_rate, step_size, leaves, removed_count, rows, content, comment_trees>>

\* call i of condense_comments, up to the loop
ConcEnter(i) ==
    /\ calls[i].pc = "idle"
    /\ LET cp == DeepCopyOf(i, heap, calls[i].root_comments)
       IN /\ heap' = cp.heap
          /\ calls' = [calls EXCEPT ![i].comments = cp.list,
                                    ![i].original_length =
                                        Len(render_markdown(cp.heap, cp.list, 0)),
                                    ![i].iteration = 0,
                                    ![i].pc = "loop"]
    /\ ConcFrame

\* the current rate of call i has reached its target
ConcRateReached(i) ==
    RateReached(Len(render_markdown(heap, calls[i].comments, 0)),
                calls[i].original_length, calls[i].target_rate)

\* call i: if current_rate <= target_rate: break; then return comments
ConcBreakTarget(i) ==
    /\ calls[i].pc = "loop"
    /\ ConcRateReached(i)
    /\ calls' = [calls EXCEPT ![i].pc = "done"]
    /\ UNCHANGED heap
    /\ ConcFrame

\* call i: if not leaves: break; then return comments
ConcBreakNoLeaves(i) ==
    /\ calls[i].pc = "loop"
    /\ ~ConcRateReached(i)
    /\ get_all_leaves(heap, calls[i].comments, None) = <<>>
    /\ calls' = [calls EXCEPT ![i].pc = "done"]
    /\ UNCHANGED heap
    /\ ConcFrame

\* call i: one iteration that sorts the leaves and removes a batch
ConcPrune(i) ==
    /\ calls[i].pc = "loop"
    /\ calls[i].iteration < MaxIter
    /\ ~ConcRateReached(i)
    /\ get_all_leaves(heap, calls[i].comments, None) # <<>>
    /\ LET sorted == SortLeaves(heap, calls[i].root_comments,
                                get_all_leaves(heap, calls[i].comments, None))
           st == RemoveBatch([heap |-> heap, comments |-> calls[i].comments, removed |-> 0],
                             sorted, 1, BatchRange(calls[i].step_size, Len(sorted)))
       IN /\ heap' = st.heap
          /\ calls' = [calls EXCEPT ![i].leaves = sorted,
                                    ![i].comments = st.comments,
                                    ![i].removed_count = st.removed,
                                    ![i].iteration = @ + 1]
    /\ ConcFrame

ConcNext ==
    \/ \E i \in CallIds : ConcEnter(i)
    \/ \E i \in CallIds : ConcBreakTarget(i)
    \/ \E i \in CallIds : ConcBreakNoLeaves(i)
    \/ \E i \in CallIds : ConcPrune(i)

SpecConc == ConcInit /\ [][ConcNext]_vars

(***************************************************************************)
(* mdformat.py: the formatting functions, on a document that is a str.     *)
(***************************************************************************)
\* the grave accent character (U+0060) of a code fence, which a string of
\* this module cannot hold as itself
Backtick == "U+0060"

\* a character that str.strip() removes and that \s matches
IsSpace(ch) == ch \in {" ", "\t", NL, "\r"}

\* s.lstrip()
RECURSIVE LStrip(_)
LStrip(s) == IF s # <<>> /\ IsSpace(Head(s)) THEN LStrip(Tail(s)) ELSE s

\* s.rstrip()
RECURSIVE RStrip(_)
RStrip(s) ==
    IF s # <<>> /\ IsSpace(s[Len(s)]) THEN RStrip(SubSeq(s, 1, Len(s) - 1)) ELSE s

remove_trailing_whitespace(text) ==
    LET lines == SplitLines(text)
    IN Join([k \in 1..Len(lines) |-> RStrip(lines[k])], <<NL>>)

\* the longest prefix of s that \s* matches
RECURSIVE SpaceRun(_)
SpaceRun(s) ==
    IF s # <<>> /\ IsSpace(Head(s)) THEN <<Head(s)>> \o SpaceRun(Tail(s)) ELSE <<>>

NewlinesIn(s) == Cardinality({k \in 1..Len(s) : s[k] = NL})

LastNewline(s) == CHOOSE k \in 1..Len(s) : s[k] = NL /\ \A j \in (k + 1)..Len(s) : s[j] # NL

\* re.sub(r'\n\s*\n\s*\n+', '\n\n', content): a match starts at a newline
\* whose run of whitespace holds three or more newlines and, the
\* quantifiers being greedy, ends at the last newline of the run; the scan
\* goes on after the match
RECURSIVE remove_duplicate_empty_lines(_)
remove_duplicate_empty_lines(text) ==
    IF text = <<>> THEN <<>>
    ELSE IF Head(text) = NL /\ NewlinesIn(SpaceRun(text)) >= 3
    THEN <<NL, NL>>
         \o remove_duplicate_empty_lines(DropChars(text, LastNewline(SpaceRun(text))))
    ELSE <<Head(text)>> \o remove_duplicate_empty_lines(Tail(text))

\* re.match(r'^[-*+]\s+', s)
BulletMarker(s) == Len(s) >= 2 /\ s[1] \in {"-", "*", "+"} /\ IsSpace(s[2])

RECURSIVE DropDigits(_)
DropDigits(s) == IF s # <<>> /\ IsDigit(Head(s)) THEN DropDigits(Tail(s)) ELSE s

\* re.match(r'^\d+[.)]\s+', s)
OrderedMarker(s) ==
    LET r == DropDigits(s)
    IN Len(r) < Len(s) /\ Len(r) >= 2 /\ r[1] \in {".", ")"} /\ IsSpace(r[2])

is_list_item(line) == BulletMarker(LStrip(line)) \/ OrderedMarker(LStrip(line))

\* re.match(r'^\s*\d+[.)]\s+', line)
IsOrdered(line) == OrderedMarker(LStrip(line))

get_list_indentation(line) == Len(line) - Len(LStrip(line))

\* the index (from 1) of the first line from start on that is not blank, or -1
find_next_non_empty_line(lines, start) ==
    LET S == {i \in start..Len(lines) : StripNonEmpty(lines[i])}
    IN IF S = {} THEN -1 ELSE CHOOSE i \in S : \A j \in S : i <= j

\* the while loop of process_list_hierarchy from line i on; the list
\* indent_levels is kept as the set of its elements
RECURSIVE ProcessList(_, _, _, _, _)
ProcessList(lines, i, base_indent, indent_levels, result) ==
    IF i > Len(lines) THEN [result |-> result, i |-> i]
    ELSE LET line == lines[i]
             next_non_empty_idx == find_next_non_empty_line(lines, i + 1)
             current_indent == get_list_indentation(line)
         IN IF ~StripNonEmpty(line)
            THEN IF next_non_empty_idx = -1
                 THEN [result |-> Append(result, line), i |-> i + 1]
                 ELSE IF /\ is_list_item(lines[next_non_empty_idx])
                         /\ get_list_indentation(lines[next_non_empty_idx]) >= base_indent
                 THEN ProcessList(lines, i + 1, base_indent, indent_levels, result)
                 ELSE IF /\ StartsWith(lines[next_non_empty_idx], <<" ">>)
                         /\ get_list_indentation(lines[next_non_empty_idx]) > base_indent
                 THEN ProcessList(lines, i + 1, base_indent, indent_levels, result)
                 ELSE [result |-> Append(result, line), i |-> i + 1]
            ELSE IF is_list_item(line)
            THEN IF current_indent < base_indent
                 THEN [result |-> result, i |-> i]
                 ELSE IF current_indent = base_indent
                 THEN ProcessList(lines, i + 1, base_indent, indent_levels,
                                  Append(result, line))
                 ELSE LET below == {l \in indent_levels : l < current_indent}
                          parent_level == IF below = {} THEN base_indent
                                          ELSE CHOOSE l \in below : \A x \in below : x <= l
                          proper_indent == parent_level + 4
                      IN ProcessList(lines, i + 1, base_indent,
                                     indent_levels \cup {proper_indent},
                                     Append(result,
                                            Repeat(<<" ">>, proper_indent) \o LStrip(line)))
            ELSE IF StartsWith(line, <<" ">>) /\ current_indent > base_indent
            THEN ProcessList(lines, i + 1, base_indent, indent_levels, Append(result, line))
            ELSE [result |-> result, i |-> i]

\* (processed_lines, lines_consumed)
process_list_hierarchy(lines, start_idx) ==
    IF start_idx > Len(lines) \/ ~is_list_item(lines[start_idx])
    THEN [result |-> <<>>, consumed |-> 0]
    ELSE LET r == ProcessList(lines, start_idx, get_list_indentation(lines[start_idx]),
                              {get_list_indentation(lines[start_idx])}, <<>>)
         IN [result |-> r.result, consumed |-> r.i - start_idx]

\* the while loop of format_lists from line i on
RECURSIVE FormatListsFrom(_, _, _)
FormatListsFrom(lines, i, result) ==
    IF i > Len(lines) THEN result
    ELSE IF is_list_item(lines[i])
    THEN FormatListsFrom(lines, i + process_list_hierarchy(lines, i).consumed,
                         result \o process_list_hierarchy(lines, i).result)
    ELSE FormatListsFrom(lines, i + 1, Append(result, lines[i]))

format_lists(text) == Join(FormatListsFrom(SplitLines(text), 1, <<>>), <<NL>>)

\* the loop of is_end_of_block that looks backwards from back_idx for a
\* list item at the indentation of the next line, and what is_end_of_block
\* returns from it
RECURSIVE LookBack(_, _, _, _, _)
LookBack(lines, back_idx, current_indent, next_indent, next_is_ordered) ==
    IF back_idx < 1 THEN TRUE
    ELSE IF ~StripNonEmpty(lines[back_idx])
    THEN LookBack(lines, back_idx - 1, current_indent, next_indent, next_is_ordered)
    ELSE IF is_list_item(lines[back_idx])
    THEN IF get_list_indentation(lines[back_idx]) = next_indent
         THEN IsOrdered(lines[back_idx]) # next_is_ordered
         ELSE IF get_list_indentation(lines[back_idx]) < current_indent
         THEN TRUE
         ELSE LookBack(lines, back_idx - 1, current_indent, next_indent, next_is_ordered)
    ELSE TRUE

\* is_end_of_block(line, lines, idx), the index (line_idx here) counted from 1
is_end_of_block(line, lines, line_idx) ==
    LET next_non_empty_idx == find_next_non_empty_line(lines, line_idx + 1)
        next_line == lines[next_non_empty_idx]
        current_indent == get_list_indentation(line)
        next_indent == get_list_indentation(next_line)
    IN IF ~StripNonEmpty(line) THEN FALSE
       ELSE IF StartsWith(LStrip(line), <<"#">>) THEN TRUE
       ELSE IF StartsWith(LStrip(line), <<">">>)
       THEN \/ line_idx + 1 > Len(lines)
            \/ ~StripNonEmpty(lines[line_idx + 1])
            \/ ~StartsWith(LStrip(lines[line_idx + 1]), <<">">>)
       ELSE IF is_list_item(line)
       THEN IF next_non_empty_idx = -1 THEN TRUE
            ELSE IF ~is_list_item(next_line) /\ next_indent <= current_indent THEN TRUE
            ELSE IF is_list_item(next_line) /\ next_indent < current_indent
            THEN LookBack(lines, line_idx - 1, current_indent, next_indent, IsOrdered(next_line))
            ELSE /\ is_list_item(next_line)
                 /\ next_indent = current_indent
                 /\ IsOrdered(line) # IsOrdered(next_line)
       ELSE IF line_idx + 1 > Len(lines) THEN TRUE
       ELSE IF next_non_empty_idx = -1 THEN TRUE
       ELSE \/ StartsWith(LStrip(next_line), <<"#">>)
            \/ StartsWith(LStrip(next_line), <<">">>)
            \/ is_list_item(next_line)
            \/ StartsWith(LStrip(RStrip(next_line)), <<Backtick, Backtick, Backtick>>)

\* the while loop of ensure_block_spacing from line i on
RECURSIVE BlockSpacingFrom(_, _, _)
BlockSpacingFrom(lines, i, result) ==
    IF i > Len(lines) THEN result
    ELSE LET next_non_empty_idx == find_next_non_empty_line(lines, i + 1)
             empty_lines_between == next_non_empty_idx - i - 1
         IN IF is_end_of_block(lines[i], lines, i) /\ next_non_empty_idx # -1
            THEN IF empty_lines_between = 0
                 THEN BlockSpacingFrom(lines, i + 1, result \o <<lines[i], <<>>>>)
                 ELSE IF empty_lines_between > 1
                 THEN BlockSpacingFrom(lines, next_non_empty_idx, result \o <<lines[i], <<>>>>)
                 ELSE BlockSpacingFrom(lines, i + 1, Append(result, lines[i]))
            ELSE BlockSpacingFrom(lines, i + 1, Append(result, lines[i]))

ensure_block_spacing(text) == Join(BlockSpacingFrom(SplitLines(text), 1, <<>>), <<NL>>)

\* content.rstrip() + '\n'
EndWithNewline(text) == RStrip(text) \o <<NL>>

(***************************************************************************)
(* format_markdown(content), one of its six steps per action, and a call   *)
(* of remove_duplicate_empty_lines(content) on its own.  The variable      *)
(* content holds the argument of the call and the value of the local       *)
(* content.                                                                *)
(***************************************************************************)
\* the largest number of lines of an input document
MaxLines == 4

\* the lines input documents are made of: an empty line, a blank line, a
\* paragraph line with trailing blanks, a list item, a heading, and list
\* items indented by two and by four spaces
MdLines ==
    { <<>>, <<" ">>, <<"a", " ">>, <<"-", " ", "b">>, <<"#", " ", "h">>,
      <<" ", " ", "-", " ", "c">>, <<" ", " ", " ", " ", "-", " ", "d">> }

MdInit ==
    /\ \E n \in 0..MaxLines :
         \E lines \in [1..n -> MdLines] :
            content = [arg |-> Join(lines, <<NL>>), value |-> Join(lines, <<NL>>)]
    /\ pc = "format_markdown"
    /\ heap = <<>>
    /\ flat_comments = <<>>
    /\ root_comments = <<>>
    /\ stack = <<>>
    /\ idx = 1
    /\ CondenseIdle
    /\ rows = <<>>
    /\ calls = <<>>
    /\ comment_trees = <<>>

MdFrame ==
    UNCHANGED <<heap, flat_comments, root_comments, stack, idx, comments, original_length,
                iteration, target_rate, step_size, leaves, removed_count, rows, calls, comment_trees>>

\* Step 1: content = remove_trailing_whitespace(content)
MdRemoveTrailing ==
    /\ pc = "format_markdown"
    /\ content' = [content EXCEPT !.value = remove_trailing_whitespace(@)]
    /\ pc' = "step2"
    /\ MdFrame

\* Step 2: content = remove_duplicate_empty_lines(content)
MdRemoveDuplicates ==
    /\ pc = "step2"
    /\ content' = [content EXCEPT !.value = remove_duplicate_empty_lines(@)]
    /\ pc' = "step3"
    /\ MdFrame

\* Step 3: content = format_lists(content)
MdFormatLists ==
    /\ pc = "step3"
    /\ content' = [content EXCEPT !.value = format_lists(@)]
    /\ pc' = "step4"
    /\ MdFrame

\* Step 4: content = ensure_block_spacing(content)
MdBlockSpacing ==
    /\ pc = "step4"
    /\ content' = [content EXCEPT !.value = ensure_block_spacing(@)]
    /\ pc' = "step5"
    /\ MdFrame

\* Step 5: content = remove_duplicate_empty_lines(content)
MdFinalCleanup ==
    /\ pc = "step5"
    /\ content' = [content EXCEPT !.value = remove_duplicate_empty_lines(@)]
    /\ pc' = "step6"
    /\ MdFrame

\* Step 6: content = content.rstrip() + '\n'; return content
MdReturn ==
    /\ pc = "step6"
    /\ content' = [content EXCEPT !.value = EndWithNewline(@)]
    /\ pc' = "formatted"
    /\ MdFrame

\* the call remove_duplicate_empty_lines(content) of a caller other than
\* format_markdown
MdCallRemoveDuplicates ==
    /\ pc = "format_markdown"
    /\ content' = [content EXCEPT !.value = remove_duplicate_empty_lines(@)]
    /\ pc' = "deduplicated"
    /\ MdFrame

\* the call format_lists(content) of a caller other than format_markdown
MdCallFormatLists ==
    /\ pc = "format_markdown"
    /\ content' = [content EXCEPT !.value = format_lists(@)]
    /\ pc' = "lists_formatted"
    /\ MdFrame

MdNext ==
    \/ MdRemoveTrailing
    \/ MdRemoveDuplicates
    \/ MdFormatLists
    \/ MdBlockSpacing
    \/ MdFinalCleanup
    \/ MdReturn
    \/ MdCallRemoveDuplicates
    \/ MdCallFormatLists

SpecMd == MdInit /\ [][MdNext]_vars

(***************************************************************************)
(* Properties.                                                             *)
(***************************************************************************)
\* the forest passed to condense_comments: the list and every object that
\* can be reached from it, with all its fields
InputForest ==
    [list  |-> root_comments,
     nodes |-> [a \in {Preorder(heap, root_comments)[k] :
                          k \in 1..Len(Preorder(heap, root_comments))} |-> heap[a]]]

\* C1: no step of condense_comments, from the call to the return, changes
\* the forest it was passed: the same list, the same nodes, the same child
\* lists in the same order and the same field values.
C1_InputNeverMutated ==
    [][(pc \in {"main", "loop"}) => (InputForest' = InputForest)]_vars

\* C1 witness: the call has returned after removing a nested leaf from the
\* copy, and the original parent still has that child
C1_Witness ==
    /\ pc = "done"
    /\ \E k \in 1..Len(root_comments) :
          Len(heap[CopyAddr(root_comments[k])].children) < Len(heap[root_comments[k]].children)

\* C2: with step_size >= 1 the loop runs at most n iterations on a forest
\* of n nodes, because every iteration removes at least one node; once n
\* iterations have run, the next test of the loop leaves it, and before
\* that the loop can always take its next step (the cap MaxIter on the
\* counter is never what stops it).
C2_Terminates ==
    /\ []((pc \in {"loop", "done"} /\ step_size >= 1)
            => iteration <= NodeCount(heap, root_comments))
    /\ [][(iteration' = iteration + 1 /\ step_size >= 1)
            => (NodeCount(heap', comments') < NodeCount(heap, comments))]_vars
    /\ []((pc = "loop" /\ step_size >= 1 /\ iteration >= NodeCount(heap, root_comments))
            => (\/ RateReached(CurrentLength, original_length, target_rate)
                \/ get_all_leaves(heap, comments, None) = <<>>))
    /\ []((pc = "loop" /\ step_size >= 1)
            => (\/ RateReached(CurrentLength, original_length, target_rate)
                \/ get_all_leaves(heap, comments, None) = <<>>
                \/ iteration < MaxIter))

\* C2 witness: a call that returned after exactly n iterations, n >= 2
C2_Witness ==
    /\ pc = "done"
    /\ step_size >= 1
    /\ iteration = NodeCount(heap, root_comments)
    /\ iteration >= 2

\* the arguments of the call are in their documented ranges:
\* 0.0 <= target_rate <= 1.0 and step_size >= 1
ValidArguments ==
    /\ target_rate[1] >= 0
    /\ target_rate[1] <= target_rate[2]
    /\ step_size >= 1

\* the depth of the node at address a in the forest being pruned
TreeDepth(a) == find_depth(heap, comments, a, 0)

\* C3: in every pruning iteration (of a call with arguments in range) the
\* sorted candidates are in ascending order of weight, and of two
\* candidates of equal weight the one at the greater depth comes first, so
\* that it is removed first.
C3_SortedByWeightThenDeeper ==
    [][(iteration' = iteration + 1 /\ ValidArguments)
         => (\A i, j \in 1..Len(leaves') :
               i < j =>
                 LET a == leaves'[i].leaf
                     b == leaves'[j].leaf
                 IN \/ weight10(heap, a) < weight10(heap, b)
                    \/ /\ weight10(heap, a) = weight10(heap, b)
                       /\ TreeDepth(a) >= TreeDepth(b))]_vars

\* the candidate leaves of the iteration about to run
Candidates == get_all_leaves(heap, comments, None)

\* the node at address a is in the forest under the root list
InForest(h, list, a) == \E k \in 1..Len(Preorder(h, list)) : Preorder(h, list)[k] = a

C5_MonotonicSize ==
    (pc \in {"loop", "done"} /\ target_rate[1] < target_rate[2])
      => Len(render_markdown(heap, comments, 0)) <= Len(render_markdown(heap, root_comments, 0))

\* C5 witness: a call with target_rate < 1.0 returned a non-empty forest
\* that renders strictly shorter than its input
C5_Witness ==
    /\ pc = "done"
    /\ target_rate[1] < target_rate[2]
    /\ comments # <<>>
    /\ CurrentLength < Len(render_markdown(heap, root_comments, 0))

\* C6: with target_rate = 1.0 no iteration runs, no node is removed and the
\* returned forest renders exactly as the input does.
C6_RateOneIdentity ==
    (pc \in {"loop", "done"} /\ target_rate = <<1, 1>>)
      => /\ iteration = 0
         /\ NodeCount(heap, comments) = NodeCount(heap, root_comments)
         /\ render_markdown(heap, comments, 0) = render_markdown(heap, root_comments, 0)

\* C6 witness: a call with target_rate = 1.0 on a nested forest has returned
C6_Witness ==
    /\ pc = "done"
    /\ target_rate = <<1, 1>>
    /\ \E k \in 1..Len(root_comments) : ~is_leaf(heap, root_comments[k])

\* C7: an iteration that finds L >= 1 leaves (step_size >= 1) removes
\* exactly min(step_size, L) of them, the first ones of the sorted list,
\* and reports that count; no candidate of the batch is skipped.
C7_BatchRemoval ==
    [][(iteration' = iteration + 1 /\ step_size >= 1)
         => (LET m == Min(step_size, Len(Candidates))
             IN /\ Len(leaves') = Len(Candidates)
                /\ removed_count' = m
                /\ NodeCount(heap', comments') = NodeCount(heap, comments) - m
                /\ \A k \in 1..Len(leaves') :
                      InForest(heap', comments', leaves'[k].leaf) <=> (k > m))]_vars

\* C7 witness: an iteration with step_size = 4 found 3 leaves and removed all 3
C7_Witness ==
    /\ iteration >= 1
    /\ step_size = 4
    /\ Len(leaves) = 3
    /\ removed_count = 3

\* the forest passed in is a list of childless root comments
FlatInput == \A k \in 1..Len(root_comments) : is_leaf(heap, root_comments[k])

\* C8: on a flat list of childless roots, with target_rate = 0.0 and
\* step_size >= 1, the loop is not left while a comment remains, and the
\* forest returned is empty.
C8_LeafExhaustion ==
    (FlatInput /\ target_rate = <<0, 1>> /\ step_size >= 1)
      => /\ (pc = "done") => (comments = <<>>)
         /\ (pc = "loop" /\ comments # <<>>)
               => /\ ~RateReached(CurrentLength, original_length, target_rate)
                  /\ Candidates # <<>>

\* C8 witness: such a call on two or more comments returned the empty forest
C8_Witness ==
    /\ pc = "done"
    /\ FlatInput
    /\ Len(root_comments) >= 2
    /\ target_rate = <<0, 1>>
    /\ step_size >= 1
    /\ comments = <<>>

\* C9: a call with step_size < 1 is rejected before the loop, so that no
\* pruning iteration ever runs with step_size < 1, and every iteration that
\* runs makes progress (stated for target rates in [0, 1]).
C9_StepSizeRejected ==
    [][(iteration' = iteration + 1 /\ target_rate[1] >= 0 /\ target_rate[1] <= target_rate[2])
         => (step_size >= 1 /\ NodeCount(heap', comments') < NodeCount(heap, comments))]_vars

\* fresh records of the nodes of a forest in pre-order, each with its
\* nesting depth times the indent unit as indent
RECURSIVE Flatten(_, _, _)
Flatten(h, list, d) ==
    IF list = <<>> THEN <<>>
    ELSE <<Comment(h[Head(list)].id, h[Head(list)].author, h[Head(list)].text,
                   d * IndentUnit)>>
         \o Flatten(h, h[Head(list)].children, d + 1)
         \o Flatten(h, Tail(list), d)

\* parent/child relationships and sibling order of a forest, by id
RECURSIVE Shape(_, _)
Shape(h, list) ==
    [k \in 1..Len(list) |-> <<h[list[k]].id, Shape(h, h[list[k]].children)>>]

\* build_comment_tree of the flattened forest gives the forest's shape
RoundTrips(h, list) ==
    LET recs == Flatten(h, list, 0)
        built == build_comment_tree(recs, [k \in 1..Len(recs) |-> k])
    IN Shape(built.heap, built.roots) = Shape(h, list)

\* C10: flattening a forest in pre-order into fresh records with
\* indent = depth * 40 and building a tree from them gives back the same
\* parent/child relationships in the same sibling order; checked for every
\* built forest and every forest condensation makes of it.
C10_RoundTrip ==
    (pc \in {"main", "loop", "done"})
      => /\ RoundTrips(heap, root_comments)
         /\ RoundTrips(heap, comments)

\* C10 witness: a forest with two siblings under one parent whose record
\* indents are not depth * 40 has been built
C10_Witness ==
    /\ pc = "main"
    /\ \E k \in 1..Len(root_comments) :
          /\ Len(heap[root_comments[k]].children) >= 2
          /\ heap[heap[root_comments[k]].children[1]].indent = 2 * IndentUnit

\* the record before the k-th one, nearest to it, whose indent is strictly
\* smaller than the k-th one's; None when there is no such record
NearestSmaller(k) ==
    LET S == {j \in 1..(k - 1) :
                 heap[flat_comments[j]].indent < heap[flat_comments[k]].indent}
    IN IF S = {} THEN None
       ELSE flat_comments[CHOOSE j \in S : \A i \in S : i <= j]

\* those of the first n records whose nearest smaller record is p, in
\* input order
AttachedTo(p, n) ==
    LET ks == AscendingSeq({k \in 1..n : NearestSmaller(k) = p})
    IN [i \in 1..Len(ks) |-> flat_comments[ks[i]]]

\* C11: once build_comment_tree has processed the first n records, each of
\* them is a child of the nearest preceding record with a strictly smaller
\* indent, after the children attached before it (so it was attached as the
\* last child), and a root, after the earlier roots, when no preceding
\* record has a strictly smaller indent.
C11_AttachToNearestSmaller ==
    (pc \in {"build", "main"})
      => /\ root_comments = AttachedTo(None, idx - 1)
         /\ \A k \in 1..Len(flat_comments) :
               heap[flat_comments[k]].children = AttachedTo(flat_comments[k], idx - 1)

\* C11 witness: the records A, B, C with indents 0, 40, 0 have been built
\* into the forest [A(children=[B]), C]
C11_Witness ==
    /\ pc = "main"
    /\ Len(flat_comments) = 3
    /\ [k \in 1..3 |-> heap[flat_comments[k]].indent] = <<0, IndentUnit, 0>>
    /\ root_comments = <<flat_comments[1], flat_comments[3]>>
    /\ heap[flat_comments[1]].children = <<flat_comments[2]>>
    /\ heap[flat_comments[3]].children = <<>>

\* every child in the forest under the list is indented more than its parent
ChildIndentGreater(h, list) ==
    \A a \in NodesOfList(h, list) :
       \A k \in 1..Len(h[a].children) : h[h[a].children[k]].indent > h[a].indent

\* C12: in the forest build_comment_tree returns, and in the working forest
\* of condense_comments at every iteration and at its return, each child's
\* indent is strictly greater than its parent's.
C12_ChildIndentGreater ==
    /\ (pc \in {"main", "loop", "done"}) => ChildIndentGreater(heap, root_comments)
    /\ (pc \in {"loop", "done"}) => ChildIndentGreater(heap, comments)

\* C12 witness: condense_comments returned, after pruning, a forest that
\* still has a child under a parent
C12_Witness ==
    /\ pc = "done"
    /\ iteration >= 1
    /\ \E k \in 1..Len(comments) : ~is_leaf(heap, comments[k])

\* C13: no record parse_comments creates, and so no node of the forest
\* built from the records, carries a negative indent, and no node's depth()
\* is negative.
C13_IndentClamped ==
    \A a \in DOMAIN heap : heap[a].indent >= 0 /\ depth(heap, a) >= 0

\* C14: a call of condense_comments on the empty forest measures the
\* original length 0 and takes the current rate as 1.0 (the target is
\* reached exactly when target_rate >= 1.0); whatever target_rate and
\* step_size are, the first test of the loop leaves it, no iteration runs
\* and the forest returned is empty.
C14_EmptyForestNoOp ==
    (pc \in {"loop", "done"} /\ root_comments = <<>>)
      => /\ original_length = 0
         /\ RateReached(CurrentLength, original_length, target_rate)
               <=> (target_rate[1] >= target_rate[2])
         /\ (pc = "loop")
               => (\/ RateReached(CurrentLength, original_length, target_rate)
                   \/ Candidates = <<>>)
         /\ iteration = 0
         /\ comments = <<>>

\* C14 witness: a call on the empty forest with target_rate = 0.5 and
\* step_size = 0 has returned the empty forest
C14_Witness ==
    /\ pc = "done"
    /\ root_comments = <<>>
    /\ target_rate = <<1, 2>>
    /\ step_size = 0
    /\ comments = <<>>

\* C15: a call with target_rate > 1.0 leaves the loop at its first test,
\* with no iteration run and the forest as it was passed; a call with
\* target_rate < 0.0 and step_size >= 1 never finds the target reached while
\* a comment remains, always has a leaf to remove, and returns the empty
\* forest.
C15_OutOfRangeRates ==
    /\ (pc \in {"loop", "done"} /\ target_rate[1] > target_rate[2])
         => /\ iteration = 0
            /\ Shape(heap, comments) = Shape(heap, root_comments)
            /\ RateReached(CurrentLength, original_length, target_rate)
    /\ (target_rate[1] < 0 /\ step_size >= 1)
         => /\ (pc = "done") => (comments = <<>>)
            /\ (pc = "loop" /\ comments # <<>>)
                  => /\ ~RateReached(CurrentLength, original_length, target_rate)
                     /\ Candidates # <<>>

\* C15 witness: a call with target_rate = -0.5 on a nested forest returned
\* the empty forest
C15_Witness ==
    /\ pc = "done"
    /\ target_rate = <<-1, 2>>
    /\ step_size >= 1
    /\ \E k \in 1..Len(root_comments) : ~is_leaf(heap, root_comments[k])
    /\ comments = <<>>

\* s is t with some of its elements left out
RECURSIVE IsSubsequence(_, _)
IsSubsequence(s, t) ==
    IF s = <<>> THEN TRUE
    ELSE IF t = <<>> THEN FALSE
    ELSE IF Head(s) = Head(t) THEN IsSubsequence(Tail(s), Tail(t))
    ELSE IsSubsequence(s, Tail(t))

\* the node of the input forest of which the node at address b is the copy
Counterpart(b) == b - MaxNodes

\* C16: at every iteration and at the return the working forest is the
\* deep copy with elements left out of its lists: its root list is the copy
\* of the input's root list with elements left out, every node in it is
\* the copy of an input node with the same id, author, text and indent, and
\* its child list is the copy of that input node's child list with elements
\* left out (so no node is new, under another parent, or out of order).
C16_OnlyRemovals ==
    (pc \in {"loop", "done"})
      => /\ IsSubsequence(comments, CopyList(root_comments))
         /\ \A b \in NodesOfList(heap, comments) :
               /\ Counterpart(b) \in NodesOfList(heap, root_comments)
               /\ heap[b].id = heap[Counterpart(b)].id
               /\ heap[b].author = heap[Counterpart(b)].author
               /\ heap[b].text = heap[Counterpart(b)].text
               /\ heap[b].indent = heap[Counterpart(b)].indent
               /\ IsSubsequence(heap[b].children, CopyList(heap[Counterpart(b)].children))

\* C16 witness: a call returned two or more nodes after removing others
C16_Witness ==
    /\ pc = "done"
    /\ iteration >= 1
    /\ NodeCount(heap, comments) >= 2
    /\ NodeCount(heap, comments) < NodeCount(heap, root_comments)

\* the markdown of the working forest, as main() renders it after the
\* return of condense_comments, split into lines
OutputLines == SplitLines(render_markdown(heap, comments, 0))

\* the number of lines that the texts of the first k nodes in pre-order have
RECURSIVE TextLines(_, _, _)
TextLines(h, pre, k) ==
    IF k = 0 THEN 0
    ELSE Len(SplitLines(h[pre[k]].text)) + TextLines(h, pre, k - 1)

\* the line, among the lines of the rendering of the forest with the
\* pre-order pre, that is the list line of the k-th node when each node
\* takes as many lines as its text has
ListLine(lines, pre, k) == lines[TextLines(heap, pre, k - 1) + 1]

\* C17: the rendering of the working forest consists of the nodes' blocks in
\* depth-first pre-order, a block being the node's list line and the
\* further lines of its text; there is no other line (no separator), and
\* the list line of a node at nesting depth d is 2*d spaces, "- @" and the
\* node's author.
C17_RenderPreorder ==
    (pc \in {"loop", "done"} /\ comments # <<>>)
      => LET pre == Preorder(heap, comments)
             lines == OutputLines
         IN /\ Len(lines) = TextLines(heap, pre, Len(pre))
            /\ \A k \in 1..Len(pre) :
                  LET line == ListLine(lines, pre, k)
                      lead == LeadingSpaces(line)
                  IN /\ lead = 2 * find_depth(heap, comments, pre[k], 0)
                     /\ StartsWith(DropChars(line, lead),
                                   <<"-", " ", "@">> \o heap[pre[k]].author)

\* C17 witness: a forest with a node at nesting depth 2 under a node with
\* a text of several lines is being rendered
C17_Witness ==
    /\ pc \in {"loop", "done"}
    /\ \E b \in NodesOfList(heap, comments) : find_depth(heap, comments, b, 0) = 2
    /\ \E k \in 1..Len(comments) :
          /\ ~is_leaf(heap, comments[k])
          /\ Len(SplitLines(heap[comments[k]].text)) > 1

\* what follows "- @author" in the list line of the node at address a
AfterAuthor(line, a) ==
    DropChars(line, LeadingSpaces(line) + 3 + Len(heap[a].author))

\* C18: in the rendering of the working forest the list line of a node
\* with N >= 1 nodes below it in that forest has " [+N]" between the author
\* and the colon, and the list line of a node with no node below it has
\* the colon directly after the author.
C18_DescendantMarker ==
    (pc \in {"loop", "done"})
      => LET pre == Preorder(heap, comments)
             lines == OutputLines
         IN \A k \in 1..Len(pre) :
               LET below == NodeCount(heap, heap[pre[k]].children)
                   rest == AfterAuthor(ListLine(lines, pre, k), pre[k])
               IN IF below >= 1
                  THEN StartsWith(rest, <<" ", "[", "+">> \o IntToStr(below)
                                          \o <<"]", ":", " ">>)
                  ELSE StartsWith(rest, <<":", " ">>)

\* C18 witness: after an iteration removed one of the two descendants of a
\* root, the root is rendered with one descendant left
C18_Witness ==
    /\ pc \in {"loop", "done"}
    /\ iteration >= 1
    /\ \E k \in 1..Len(comments) :
          /\ NodeCount(heap, heap[comments[k]].children) = 1
          /\ NodeCount(heap, heap[Counterpart(comments[k])].children) = 2

\* the loop of condense_comments run to its end on the working forest st
RECURSIVE RunLoop(_, _, _, _, _)
RunLoop(st, roots, orig_length, rate, step) ==
    LET ls == get_all_leaves(st.heap, st.comments, None)
    IN IF RateReached(Len(render_markdown(st.heap, st.comments, 0)), orig_length, rate)
       THEN st
       ELSE IF ls = <<>> THEN st
       ELSE LET sorted == SortLeaves(st.heap, roots, ls)
            IN RunLoop(RemoveBatch([heap |-> st.heap, comments |-> st.comments,
                                    removed |-> 0],
                                   sorted, 1, BatchRange(step, Len(sorted))),
                       roots, orig_length, rate, step)

\* condense_comments(roots, rate, step) run alone, from the call to the return
CondenseAlone(h, roots, rate, step) ==
    LET cp == DeepCopy(h, roots)
    IN RunLoop([heap |-> cp.heap, comments |-> cp.list, removed |-> 0], roots,
               Len(render_markdown(cp.heap, cp.list, 0)), rate, step)

\* a forest as a value: every node's fields and its children, in order
RECURSIVE ForestValue(_, _)
ForestValue(h, list) ==
    [k \in 1..Len(list) |->
        [id |-> h[list[k]].id, author |-> h[list[k]].author, text |-> h[list[k]].text,
         indent |-> h[list[k]].indent, children |-> ForestValue(h, h[list[k]].children)]]

\* the forest call i would return if it ran alone on the forest as built
AloneResult(i) ==
    LET r == CondenseAlone([a \in DOMAIN heap \cap 1..MaxNodes |-> heap[a]],
                           calls[i].root_comments, calls[i].target_rate,
                           calls[i].step_size)
    IN ForestValue(r.heap, r.comments)

\* C19: however the steps of the calls are interleaved, a call that has
\* returned has returned the forest it returns when run alone, and no step
\* of any call changes a node or the root list of the forests the calls
\* were passed.
C19_ConcurrentCallsSafe ==
    /\ [](\A i \in DOMAIN calls :
            (calls[i].pc = "done") => (ForestValue(heap, calls[i].comments) = AloneResult(i)))
    /\ [][/\ root_comments' = root_comments
          /\ \A a \in DOMAIN heap \cap 1..MaxNodes : heap'[a] = heap[a]]_vars

\* C19 witness: of two calls on the same forest one has returned after
\* pruning while the other, having pruned too, is still in its loop
C19_Witness ==
    /\ pc = "conc"
    /\ calls[1].root_comments = calls[2].root_comments
    /\ calls[1].pc = "done" /\ calls[1].iteration >= 1
    /\ calls[2].pc = "loop" /\ calls[2].iteration >= 1
    /\ NodeCount(heap, calls[1].comments) # NodeCount(heap, calls[2].comments)

\* the lines of a document: the text between its newlines, a final newline
\* ending the last line
DocLines(text) ==
    IF text # <<>> /\ text[Len(text)] = NL
    THEN SplitLines(SubSeq(text, 1, Len(text) - 1))
    ELSE IF text = <<>> THEN <<>> ELSE SplitLines(text)

\* C20: the document format_markdown returns, and the document
\* remove_duplicate_empty_lines returns, has no empty line directly after
\* an empty line, the first two lines included.
C20_NoConsecutiveEmptyLines ==
    (pc \in {"formatted", "deduplicated"})
      => \A k \in 1..(Len(DocLines(content.value)) - 1) :
            ~(DocLines(content.value)[k] = <<>> /\ DocLines(content.value)[k + 1] = <<>>)

\* a line that line.strip() empties
IsBlank(line) == LStrip(line) = <<>>

\* C21: in the text format_lists returns no run of empty lines lies between
\* two list items: no list item is followed, after one or more empty lines
\* and nothing else, by a list item.
C21_NoEmptyLineBetweenItems ==
    (pc = "lists_formatted")
      => LET out == SplitLines(content.value)
         IN  \A i \in 1..Len(out) : \A j \in (i + 2)..Len(out) :
                ~(/\ is_list_item(out[i])
                  /\ is_list_item(out[j])
                  /\ \A m \in (i + 1)..(j - 1) : IsBlank(out[m]))

\* the lines of a text that are not blank, in order
NonBlankLines(lines) == SelectSeq(lines, LAMBDA l : ~IsBlank(l))

\* the parent of the k-th line of a run of list items: the nearest earlier
\* item whose indentation is smaller, reached over list items only; 0 when
\* there is none
ParentItem(lines, k) ==
    LET cands == { i \in 1..(k - 1) :
                     /\ \A m \in i..k : is_list_item(lines[m])
                     /\ get_list_indentation(lines[i]) < get_list_indentation(lines[k]) }
    IN  IF cands = {} THEN 0 ELSE CHOOSE i \in cands : \A o \in cands : o <= i

\* C22: in the text format_lists returns every list item that has a parent
\* among the input's list items (the nearest preceding item of smaller input
\* indentation) is indented exactly four spaces more than that parent.
C22_SublistFourDeeper ==
    (pc = "lists_formatted")
      => LET inp == NonBlankLines(SplitLines(content.arg))
             out == NonBlankLines(SplitLines(content.value))
         IN  /\ Len(out) = Len(inp)
             /\ \A k \in 1..Len(inp) :
                   (is_list_item(inp[k]) /\ ParentItem(inp, k) # 0)
                     => get_list_indentation(out[k])
                          = get_list_indentation(out[ParentItem(inp, k)]) + 4

\* the nodes of forest (h, roots) that have no children
CurrentLeaves(h, roots) == { a \in NodesOfList(h, roots) : h[a].children = <<>> }

\* the node whose child list holds node a in forest (h, roots), None when
\* the root list holds it
HolderOf(h, roots, a) ==
    IF \E k \in 1..Len(roots) : roots[k] = a
    THEN None
    ELSE CHOOSE p \in NodesOfList(h, roots) :
            \E k \in 1..Len(h[p].children) : h[p].children[k] = a

\* C23: the candidate list an iteration computes holds exactly the leaves
\* of the forest as it is at the start of that iteration, each once and each
\* with the list that holds it; a node that lost its last child in the
\* iteration is among the candidates computed from the forest it leaves.
C23_CandidatesAreCurrentLeaves ==
    [][(iteration' = iteration + 1)
         => /\ Len(leaves') = Cardinality(CurrentLeaves(heap, comments))
            /\ { leaves'[k].leaf : k \in 1..Len(leaves') } = CurrentLeaves(heap, comments)
            /\ \A k \in 1..Len(leaves') :
                  leaves'[k].parent = HolderOf(heap, comments, leaves'[k].leaf)
            /\ LET next == get_all_leaves(heap', comments', None)
               IN  \A a \in NodesOfList(heap', comments') :
                      (heap[a].children # <<>> /\ heap'[a].children = <<>>)
                        => \E k \in 1..Len(next) : next[k].leaf = a]_vars

\* the second or a later iteration had among its candidates a node that
\* has children in the input forest
C23_Witness ==
    /\ pc \in {"loop", "done"}
    /\ iteration >= 2
    /\ \E k \in 1..Len(leaves) :
          heap[Counterpart(leaves[k].leaf)].children # <<>>

\* C24: a call on a non-empty forest with 0 <= target_rate <= 1 and
\* step_size >= 1 returns a forest whose rendered length is at most
\* target_rate times the original rendered length; the loop finds no leaves
\* only in an empty forest; and a call returns above its target only for
\* an empty input forest or a negative target_rate.
C24_TargetReached ==
    LET current == IF pc \in {"loop", "done"} THEN CurrentLength ELSE 0
    IN  /\ (pc = "done" /\ root_comments # <<>> /\ ValidArguments)
              => current * target_rate[2] <= target_rate[1] * original_length
        /\ (pc = "loop" /\ get_all_leaves(heap, comments, None) = <<>>)
              => comments = <<>>
        /\ (pc = "done" /\ ~RateReached(current, original_length, target_rate))
              => (root_comments = <<>> \/ target_rate[1] < 0)

\* a call with target_rate 0.5 returned after pruning, with a comment and
\* its reply left of the forest
C24_Witness ==
    /\ pc = "done"
    /\ ValidArguments
    /\ target_rate = <<1, 2>>
    /\ iteration >= 1
    /\ \E k \in 1..Len(comments) : ~is_leaf(heap, comments[k])
    /\ 2 * CurrentLength <= original_length

\* C25: in a call with arguments in range, for every candidate leaf that
\* has a parent the depth the sort key is computed from is the leaf's
\* nesting depth in the forest being pruned, never the not-found value -1.
C25_DepthLookupFindsLeaf ==
    [][(iteration' = iteration + 1 /\ ValidArguments)
         => (\A k \in 1..Len(leaves') :
               (leaves'[k].parent # None)
                 => LET d == -(leaf_sort_key(heap, root_comments, leaves'[k])[2])
                    IN  d # -1 /\ d = TreeDepth(leaves'[k].leaf))]_vars

\* the position of element a in the list
PositionIn(list, a) == CHOOSE k \in 1..Len(list) : list[k] = a

\* C26: at every iteration and at the return, every node of the working
\* forest is held by the copy of the node that holds its counterpart in the
\* input (by the root list if the counterpart is a root), so its parent and
\* all its ancestors are retained; retained siblings are in the order of
\* their counterparts in the input; and every node an iteration removes had
\* no children when the iteration started.
C26_AncestorClosed ==
    /\ [](pc \in {"loop", "done"}
            => \A b \in NodesOfList(heap, comments) :
                  LET p == HolderOf(heap, root_comments, Counterpart(b))
                      sibs == heap[b].children
                      orig == heap[Counterpart(b)].children
                  IN  /\ HolderOf(heap, comments, b)
                           = (IF p = None THEN None ELSE CopyAddr(p))
                      /\ \A i, j \in 1..Len(sibs) :
                            (i < j) => PositionIn(orig, Counterpart(sibs[i]))
                                         < PositionIn(orig, Counterpart(sibs[j])))
    /\ [](pc \in {"loop", "done"}
            => \A i, j \in 1..Len(comments) :
                  (i < j) => PositionIn(root_comments, Counterpart(comments[i]))
                               < PositionIn(root_comments, Counterpart(comments[j])))
    /\ [][(iteration' = iteration + 1)
            => \A b \in NodesOfList(heap, comments) \ NodesOfList(heap', comments') :
                  heap[b].children = <<>>]_vars

\* an iteration has run and a comment that still has a reply is left with
\* fewer nodes around it than the input has
C26_Witness ==
    /\ pc = "loop"
    /\ iteration >= 1
    /\ NodeCount(heap, comments) < NodeCount(heap, root_comments)
    /\ \E b \in NodesOfList(heap, comments) : HolderOf(heap, comments, b) # None

\* C27: in every iteration (step_size >= 1) the weight of each candidate is
\* the length of its text over 10, and the text of each candidate the batch
\* removes is at most as long as the text of each candidate it leaves.
C27_ShortestTextsRemoved ==
    [][(iteration' = iteration + 1 /\ step_size >= 1)
         => LET gone(k) == leaves'[k].leaf \notin NodesOfList(heap', comments')
            IN  /\ \A k \in 1..Len(leaves') :
                      weight10(heap, leaves'[k].leaf) = Len(heap[leaves'[k].leaf].text)
                /\ \A i, j \in 1..Len(leaves') :
                      (gone(i) /\ ~gone(j))
                        => Len(heap[leaves'[i].leaf].text)
                             <= Len(heap[leaves'[j].leaf].text)]_vars

\* the last batch removed a candidate with a shorter text and left one with
\* a longer text
C27_Witness ==
    /\ pc \in {"loop", "done"}
    /\ iteration >= 1
    /\ \E i, j \in 1..Len(leaves) :
          /\ leaves[i].leaf \notin NodesOfList(heap, comments)
          /\ leaves[j].leaf \in NodesOfList(heap, comments)
          /\ Len(heap[leaves[i].leaf].text) < Len(heap[leaves[j].leaf].text)

(***************************************************************************)
(* A caller that calls build_comment_tree(flat_comments) more than once on *)
(* the same records; comment_trees holds the value of each returned forest *)
(* as it was at the return.                                                *)
(***************************************************************************)
\* the number of calls of build_comment_tree the caller makes
MaxBuilds == 2

\* return root_comments, the caller keeping what the forest looks like
RebuildReturn ==
    /\ pc = "build"
    /\ idx > Len(flat_comments)
    /\ comment_trees' = Append(comment_trees, ForestValue(heap, root_comments))
    /\ pc' = "main"
    /\ stack' = <<>>
    /\ UNCHANGED <<heap, flat_comments, root_comments, idx, comments, original_length,
                   iteration, target_rate, step_size, leaves, removed_count,
                   rows, calls, content>>

\* the next call build_comment_tree(flat_comments): root_comments = [] and
\* stack = [] are new lists, the records are the ones of the call before
BuildAgain ==
    /\ pc = "main"
    /\ Len(comment_trees) < MaxBuilds
    /\ pc' = "build"
    /\ idx' = 1
    /\ root_comments' = <<>>
    /\ stack' = <<>>
    /\ UNCHANGED <<heap, flat_comments, comments, original_length,
                   iteration, target_rate, step_size, leaves, removed_count,
                   rows, calls, content, comment_trees>>

RebuildNext ==
    \/ BuildStep
    \/ RebuildReturn
    \/ BuildAgain

SpecRebuild == Init /\ [][RebuildNext]_vars

\* C28: every call of build_comment_tree on the same record sequence
\* returns the forest the first call returned.
C28_BuildRepeatable ==
    \A k \in 2..Len(comment_trees) : comment_trees[k] = comment_trees[1]

\* C29: while build_comment_tree runs, the pre-order traversal of the forest
\* built so far is the sequence of the records taken so far, and the forest
\* it returns has the whole input sequence as its pre-order traversal, so
\* every record is in it exactly once; negative indents included.
C29_PreorderIsInput ==
    /\ (pc = "build")
          => Preorder(heap, root_comments) = SubSeq(flat_comments, 1, idx - 1)
    /\ (pc = "main")
          => /\ Preorder(heap, root_comments) = flat_comments
             /\ \A a \in NodesOfList(heap, flat_comments) :
                   Cardinality({ k \in 1..Len(Preorder(heap, root_comments)) :
                                   Preorder(heap, root_comments)[k] = a }) = 1

\* a forest has been returned in which a record with a negative indent has
\* two children
C29_Witness ==
    /\ pc = "main"
    /\ Len(flat_comments) = 3
    /\ \E a \in DOMAIN heap : heap[a].indent < 0 /\ Len(heap[a].children) = 2

\* the indents of the comments of a list never increase along the list
NonIncreasingIndents(h, list) ==
    \A i, j \in 1..Len(list) : (i < j) => h[list[i]].indent >= h[list[j]].indent

\* C30: in the forest build_comment_tree is building and in the one it
\* returns, the indents along the root list and along every child list
\* never increase; while it runs, after the first record, the stack ends
\* with the latest record, starts with a root, each entry is a child of the
\* entry below it, and the indents strictly increase from bottom to top.
C30_SiblingsAndStack ==
    /\ (pc \in {"build", "main"})
          => /\ NonIncreasingIndents(heap, root_comments)
             /\ \A k \in 1..Len(flat_comments) :
                   NonIncreasingIndents(heap, heap[flat_comments[k]].children)
    /\ (pc = "build" /\ idx > 1)
          => /\ stack # <<>>
             /\ stack[Len(stack)] = flat_comments[idx - 1]
             /\ \E k \in 1..Len(root_comments) : root_comments[k] = stack[1]
             /\ \A k \in 1..(Len(stack) - 1) :
                   /\ heap[stack[k]].indent < heap[stack[k + 1]].indent
                   /\ \E m \in 1..Len(heap[stack[k]].children) :
                         heap[stack[k]].children[m] = stack[k + 1]

\* the third record has been attached under the second of two roots and
\* the stack holds that root and the record
C30_Witness ==
    /\ pc = "build"
    /\ idx = 4
    /\ Len(root_comments) = 2
    /\ Len(stack) = 2
    /\ heap[stack[1]].indent < heap[stack[2]].indent

====
